---- MODULE Spec2Model ----
(***************************************************************************)
(* A model of the prompt-engineering demonstration scripts:                *)
(*   1_system_vs_user_prompts.py .. 6_structured_output.py                 *)
(* Each script walks through its example loops, issuing one completion     *)
(* request per example site.  6_structured_output.py adds the bounded      *)
(* retry JSON enforcer (create_json_enforcer / enforce_json_output) and    *)
(* the shallow validator (validate_schema).                                *)
(*                                                                         *)
(* Python strings are sequences of lexical units.  A unit stands for the   *)
(* run of characters it spells; the alphabet is chosen so that none of     *)
(* the patterns the code searches for (three backticks, three backticks    *)
(* followed by json, white space, the JSON punctuation) begins or ends     *)
(* inside a unit, so str.strip, str.startswith, str.replace and json.loads *)
(* act on units exactly as they act on the characters.                     *)
(***************************************************************************)
EXTENDS Integers, Sequences, FiniteSets, TLC

----------------------------------------------------------------------------
(* Lexical units *)

BT == "BACKTICK"
SP == " "
NL == "LF"
DQ == "DQUOTE"

Whitespace == {SP, NL}
Structural == {"{", "}", "[", "]", ":", ","}
Digits == {"0", "1"}

\* a unit that is neither white space, nor punctuation, nor a double quote
IsWord(t) == t \notin (Whitespace \cup Structural \cup {DQ})

----------------------------------------------------------------------------
(* Python values: the results of json.loads *)

None == [t |-> "NoneType", v |-> <<>>]
PyBool(b) == [t |-> "bool", v |-> b]
PyInt(digits) == [t |-> "int", v |-> digits]
PyStr(units) == [t |-> "str", v |-> units]
PyList(elems) == [t |-> "list", v |-> elems]
PyDict(items) == [t |-> "dict", v |-> items]

isinstance_dict(data) == data.t = "dict"

----------------------------------------------------------------------------
(* str methods *)

RECURSIVE lstrip(_)
lstrip(s) ==
    IF s # <<>> /\ Head(s) \in Whitespace THEN lstrip(Tail(s)) ELSE s

RECURSIVE rstrip(_)
rstrip(s) ==
    IF s # <<>> /\ s[Len(s)] \in Whitespace
    THEN rstrip(SubSeq(s, 1, Len(s) - 1))
    ELSE s

strip(s) == rstrip(lstrip(s))

startswith(s, prefix) ==
    Len(s) >= Len(prefix) /\ SubSeq(s, 1, Len(prefix)) = prefix

\* s.replace(old, new): every non-overlapping occurrence, left to right
RECURSIVE replace(_, _, _)
replace(s, old, new) ==
    IF s = <<>> THEN <<>>
    ELSE IF startswith(s, old)
         THEN new \o replace(SubSeq(s, Len(old) + 1, Len(s)), old, new)
         ELSE <<Head(s)>> \o replace(Tail(s), old, new)

----------------------------------------------------------------------------
(* json.loads: ok = FALSE stands for json.JSONDecodeError *)

DecodeError == [ok |-> FALSE, val |-> None, end |-> 0]
Decoded(val, end) == [ok |-> TRUE, val |-> val, end |-> end]

RECURSIVE skip_ws(_, _)
skip_ws(s, i) ==
    IF i <= Len(s) /\ s[i] \in Whitespace THEN skip_ws(s, i + 1) ELSE i

\* index of the closing quote of the string whose content starts at j, or 0:
\* an unterminated string, or a control character inside it, is an error
RECURSIVE scan_string_end(_, _)
scan_string_end(s, j) ==
    IF j > Len(s) THEN 0
    ELSE IF s[j] = DQ THEN j
    ELSE IF s[j] = NL THEN 0
    ELSE scan_string_end(s, j + 1)

\* index after the run of word units that starts at i
RECURSIVE word_run_end(_, _)
word_run_end(s, i) ==
    IF i <= Len(s) /\ IsWord(s[i]) THEN word_run_end(s, i + 1) ELSE i

\* a literal or a number spelled by a run of word units
scan_scalar(s, i) ==
    LET e == word_run_end(s, i)
        run == SubSeq(s, i, e - 1)
    IN  IF run = <<"null">> THEN Decoded(None, e)
        ELSE IF run = <<"true">> THEN Decoded(PyBool(TRUE), e)
        ELSE IF run = <<"false">> THEN Decoded(PyBool(FALSE), e)
        ELSE IF /\ \A k \in 1..Len(run) : run[k] \in Digits
                /\ (Len(run) = 1 \/ run[1] # "0")
             THEN Decoded(PyInt(run), e)
        ELSE DecodeError

RECURSIVE scan_value(_, _), scan_members(_, _, _), scan_elements(_, _, _)

\* the value that starts at unit i (white space already skipped)
scan_value(s, i) ==
    IF i > Len(s) THEN DecodeError
    ELSE IF s[i] = DQ
         THEN LET j == scan_string_end(s, i + 1)
              IN  IF j = 0 THEN DecodeError
                  ELSE Decoded(PyStr(SubSeq(s, i + 1, j - 1)), j + 1)
    ELSE IF s[i] = "{"
         THEN LET n == skip_ws(s, i + 1)
              IN  IF n <= Len(s) /\ s[n] = "}"
                  THEN Decoded(PyDict(<<>>), n + 1)
                  ELSE scan_members(s, n, <<>>)
    ELSE IF s[i] = "["
         THEN LET n == skip_ws(s, i + 1)
              IN  IF n <= Len(s) /\ s[n] = "]"
                  THEN Decoded(PyList(<<>>), n + 1)
                  ELSE scan_elements(s, n, <<>>)
    ELSE IF IsWord(s[i]) THEN scan_scalar(s, i)
    ELSE DecodeError

\* "key": value pairs up to the closing brace; a repeated key keeps the last
scan_members(s, i, items) ==
    IF i > Len(s) \/ s[i] # DQ THEN DecodeError
    ELSE LET j == scan_string_end(s, i + 1)
         IN  IF j = 0 THEN DecodeError
             ELSE LET key == SubSeq(s, i + 1, j - 1)
                      c == skip_ws(s, j + 1)
                  IN  IF c > Len(s) \/ s[c] # ":" THEN DecodeError
                      ELSE LET r == scan_value(s, skip_ws(s, c + 1))
                           IN  IF ~r.ok THEN DecodeError
                               ELSE LET items2 == (key :> r.val) @@ items
                                        n == skip_ws(s, r.end)
                                    IN  IF n > Len(s) THEN DecodeError
                                        ELSE IF s[n] = "}"
                                             THEN Decoded(PyDict(items2), n + 1)
                                        ELSE IF s[n] = ","
                                             THEN scan_members(s, skip_ws(s, n + 1), items2)
                                        ELSE DecodeError

\* values up to the closing bracket
scan_elements(s, i, elems) ==
    LET r == scan_value(s, i)
    IN  IF ~r.ok THEN DecodeError
        ELSE LET elems2 == Append(elems, r.val)
                 n == skip_ws(s, r.end)
             IN  IF n > Len(s) THEN DecodeError
                 ELSE IF s[n] = "]" THEN Decoded(PyList(elems2), n + 1)
                 ELSE IF s[n] = ","
                      THEN scan_elements(s, skip_ws(s, n + 1), elems2)
                 ELSE DecodeError

json_loads(s) ==
    LET r == scan_value(s, skip_ws(s, 1))
    IN  IF r.ok /\ skip_ws(s, r.end) > Len(s)
        THEN [ok |-> TRUE, val |-> r.val]
        ELSE [ok |-> FALSE, val |-> None]

----------------------------------------------------------------------------
(* 6_structured_output.py: the helpers of enforce_json_output *)

FENCE == <<BT, BT, BT>>
FENCE_JSON == <<BT, BT, BT, "json">>

\* (variant) only the opening marker is cut off
clean_formatting_leading_only(result_text) ==
    IF startswith(result_text, FENCE_JSON)
    THEN strip(SubSeq(result_text, Len(FENCE_JSON) + 1, Len(result_text)))
    ELSE IF startswith(result_text, FENCE)
         THEN strip(SubSeq(result_text, Len(FENCE) + 1, Len(result_text)))
         ELSE result_text

\* (variant) the tagged fence has no branch of its own
clean_formatting_untagged_only(result_text) ==
    IF startswith(result_text, FENCE)
    THEN strip(replace(result_text, FENCE, <<>>))
    ELSE result_text

\* "Try to clean common formatting issues"
clean_formatting(result_text) ==
    IF startswith(result_text, FENCE_JSON)
    THEN strip(replace(replace(result_text, FENCE_JSON, <<>>), FENCE, <<>>))
    ELSE IF startswith(result_text, FENCE)
         THEN strip(replace(result_text, FENCE, <<>>))
         ELSE result_text

\* a schema is an ordered mapping: a sequence of [key, value] items
SchemaKeys(schema) == {schema[i].key : i \in 1..Len(schema)}

\* (variant) the keys must be exactly those of the schema
validate_schema_exact(data, schema) ==
    IF ~isinstance_dict(data) THEN FALSE
    ELSE DOMAIN data.v = SchemaKeys(schema)

\* (variant) any(...) in place of all(...)
validate_schema_any(data, schema) ==
    IF ~isinstance_dict(data) THEN FALSE
    ELSE \E key \in SchemaKeys(schema) : key \in DOMAIN data.v

\* (variant) only the first key of the schema is looked for
validate_schema_first_key(data, schema) ==
    IF ~isinstance_dict(data) THEN FALSE
    ELSE schema = <<>> \/ schema[1].key \in DOMAIN data.v

\* (variant) a mapping declared in the schema is checked for its own keys
validate_schema_nested(data, schema) ==
    IF ~isinstance_dict(data) THEN FALSE
    ELSE \A i \in 1..Len(schema) :
            /\ schema[i].key \in DOMAIN data.v
            /\ schema[i].value.t = "dict"
               => /\ data.v[schema[i].key].t = "dict"
                  /\ DOMAIN schema[i].value.v \subseteq DOMAIN data.v[schema[i].key].v

\* (variant) no isinstance check
validate_schema_unchecked(data, schema) ==
    \A key \in SchemaKeys(schema) : isinstance_dict(data) /\ key \in DOMAIN data.v

validate_schema(data, schema) ==
    IF ~isinstance_dict(data) THEN FALSE
    ELSE \A key \in SchemaKeys(schema) : key \in DOMAIN data.v

DefaultMaxRetries == 3

\* (variant) range(max_retries + 1)
in_range_inclusive(attempt_, max_retries_) == attempt_ <= max_retries_

\* for attempt in range(max_retries)
in_range(attempt_, max_retries_) == attempt_ < max_retries_

\* (variant) if attempt == max_retries
is_last_attempt_late(attempt_, max_retries_) == attempt_ = max_retries_

\* if attempt == max_retries - 1
is_last_attempt(attempt_, max_retries_) == attempt_ = max_retries_ - 1

\* (variant) except Exception as e
is_caught_everything(error) == TRUE

\* (variant) except json.JSONDecodeError as e
is_caught_decode_only(error) == error = "JSONDecodeError"

\* except (json.JSONDecodeError, ValueError) as e
is_caught(error) == error \in {"JSONDecodeError", "ValueError"}

\* (variant) the note is labelled with the number of the failed attempt
CorrectiveNote_failed_attempt(attempt_) == [kind |-> "ATTEMPT", n |-> attempt_ + 1]

\* json_prompt += "\n\nATTEMPT {attempt + 2}: ..."
CorrectiveNote(attempt_) == [kind |-> "ATTEMPT", n |-> attempt_ + 2]

DefaultSystemMessage == "You are a JSON-only API. Return only valid JSON."
NoSystemMessage == ""

\* system_message or "You are a JSON-only API. ..."
system_msg(system_message) ==
    IF system_message = NoSystemMessage THEN DefaultSystemMessage
    ELSE system_message

----------------------------------------------------------------------------
(* The schemas of 6_structured_output.py *)

Item(key, value) == [key |-> <<key>>, value |-> value]
Desc(text) == PyStr(<<text>>)
DescList(text) == PyList(<<PyStr(<<text>>)>>)

analysis_schema ==
    << Item("tables", DescList("list of table names")),
       Item("operations", DescList("list of SQL operations")),
       Item("complexity", Desc("low|medium|high")),
       Item("estimated_runtime", Desc("seconds as integer")),
       Item("potential_issues", DescList("list of potential problems")),
       Item("optimization_suggestions", DescList("list of improvements")),
       Item("confidence_score", Desc("float between 0 and 1")) >>

security_schema ==
    << Item("vulnerability_level", Desc("low|medium|high|critical")),
       Item("vulnerabilities_found", DescList("list of security issues")),
       Item("sql_injection_risk", Desc("boolean")),
       Item("data_exposure_risk", Desc("boolean")),
       Item("recommendations", DescList("list of security fixes")),
       Item("compliant_with_standards", DescList("list of standards")),
       Item("audit_score", Desc("integer 1-10")) >>

performance_schema ==
    << Item("estimated_execution_time", Desc("string with units")),
       Item("resource_usage",
            PyDict([k \in {<<"cpu_intensive">>, <<"memory_intensive">>,
                           <<"io_intensive">>} |-> Desc("boolean")])),
       Item("scalability_concerns", DescList("list of scalability issues")),
       Item("recommended_indexes", DescList("list of index suggestions")),
       Item("alternative_approaches", DescList("list of alternative query strategies")),
       Item("bottlenecks", DescList("list of performance bottlenecks")),
       Item("optimization_priority", Desc("low|medium|high")) >>

simple_schema ==
    << Item("status", Desc("success|error")),
       Item("message", Desc("string")),
       Item("data", Desc("any valid JSON value or null")) >>

main_schema ==
    << Item("tables", DescList("list of table names")),
       Item("operations", DescList("list of SQL operations")),
       Item("complexity", Desc("low|medium|high")),
       Item("estimated_runtime", Desc("seconds as integer")) >>

empty_schema == <<>>

Schemas ==
    { analysis_schema, security_schema, performance_schema, simple_schema,
      main_schema, empty_schema }

----------------------------------------------------------------------------
(* What the hosted completion call can answer: it raises, or it returns a   *)
(* response whose message content is None or a text.                        *)

RequestError == [kind |-> "raise", text |-> <<>>]
NoContent == [kind |-> "none", text |-> <<>>]
Text(units) == [kind |-> "text", text |-> units]

Str(w) == <<DQ, w, DQ>>
Pair(key, value) == Str(key) \o <<":", SP>> \o value
Fenced(tag, body) == FENCE \o tag \o <<NL>> \o body \o <<NL>> \o FENCE

\* {"status": "success", "message": "ok", "data": null}
success_object ==
    <<"{">> \o Pair("status", Str("success")) \o <<",", SP>>
            \o Pair("message", Str("ok")) \o <<",", SP>>
            \o Pair("data", <<"null">>) \o <<"}">>

\* {"status": "success"}
status_only_object == <<"{">> \o Pair("status", Str("success")) \o <<"}">>

\* {"status": 1, "message": [], "data": {"rows": true}, "extra": null}
other_types_object ==
    <<"{">> \o Pair("status", <<"1">>) \o <<",", SP>>
            \o Pair("message", <<"[", "]">>) \o <<",", SP>>
            \o Pair("data", <<"{">> \o Pair("rows", <<"true">>) \o <<"}">>)
            \o <<",", SP>> \o Pair("extra", <<"null">>) \o <<"}">>

\* {"status": "```", "message": "ok", "data": null}
fence_in_value_object ==
    <<"{">> \o Pair("status", <<DQ>> \o FENCE \o <<DQ>>) \o <<",", SP>>
            \o Pair("message", Str("ok")) \o <<",", SP>>
            \o Pair("data", <<"null">>) \o <<"}">>

\* ["status", "message", "data"]
key_list == <<"[">> \o Str("status") \o <<",", SP>> \o Str("message")
                    \o <<",", SP>> \o Str("data") \o <<"]">>

not_json_at_all == <<"not", SP, "json", SP, "at", SP, "all">>

\* texts that are JSON as they stand
JsonBodies ==
    { success_object, status_only_object, other_types_object,
      fence_in_value_object, key_list, <<"null">>, <<"1">>, <<"true">>,
      Str("ok"), <<"{", "}">> }

\* those of them that also come wrapped in a code fence
FencedBodies ==
    { success_object, status_only_object, fence_in_value_object, key_list,
      <<"null">> }

ResponseTexts ==
    JsonBodies
    \cup {Fenced(<<"json">>, b) : b \in FencedBodies}
    \cup {Fenced(<<>>, b) : b \in FencedBodies}
    \cup { not_json_at_all,
           <<>>,
           <<NL, SP>> \o Fenced(<<"json">>, success_object) \o <<NL>>,
           FENCE_JSON \o success_object \o FENCE,
           Fenced(<<"json">>, not_json_at_all),
           Fenced(<<"sql">>, success_object),
           FENCE_JSON \o <<NL, "{">> \o Str("status") \o <<":">>,
           <<"Here", SP, "is", SP, "the", SP, "JSON", ":", NL>>
               \o Fenced(<<"json">>, success_object),
           success_object \o <<NL, "Done">> }

\* an object holding every key of the schema, each with the value null
RECURSIVE MembersText(_, _)
MembersText(schema, i) ==
    IF i > Len(schema) THEN <<>>
    ELSE <<DQ>> \o schema[i].key \o <<DQ, ":", SP, "null">>
         \o (IF i < Len(schema) THEN <<",", SP>> ELSE <<>>)
         \o MembersText(schema, i + 1)

ObjectText(schema) == <<"{">> \o MembersText(schema, 1) \o <<"}">>

\* the same object with the text `value` under `key`, and with `more` before
\* the closing brace
RECURSIVE MembersTextWith(_, _, _, _)
MembersTextWith(schema, i, key, value) ==
    IF i > Len(schema) THEN <<>>
    ELSE <<DQ>> \o schema[i].key \o <<DQ, ":", SP>>
         \o (IF schema[i].key = key THEN value ELSE <<"null">>)
         \o (IF i < Len(schema) THEN <<",", SP>> ELSE <<>>)
         \o MembersTextWith(schema, i + 1, key, value)

ObjectTextWith(schema, key, value, more) ==
    <<"{">> \o MembersTextWith(schema, 1, key, value) \o more \o <<"}">>

\* performance reports whose resource_usage is {}, {"cpu_intensive": true},
\* 1, and one with a key the schema does not name
resource_usage_empty ==
    ObjectTextWith(performance_schema, <<"resource_usage">>, <<"{", "}">>, <<>>)
resource_usage_partial ==
    ObjectTextWith(performance_schema, <<"resource_usage">>,
                   <<"{">> \o Pair("cpu_intensive", <<"true">>) \o <<"}">>, <<>>)
resource_usage_number ==
    ObjectTextWith(performance_schema, <<"resource_usage">>, <<"1">>, <<>>)
report_with_extra_key ==
    ObjectTextWith(performance_schema, <<"resource_usage">>, <<"{", "}">>,
                   <<",", SP>> \o Pair("extra", <<"null">>))

PerformanceTexts ==
    { resource_usage_empty, resource_usage_partial, resource_usage_number,
      report_with_extra_key }

\* the answers a whole script is run against: one of each kind
ScriptResponses(schema) ==
    { RequestError, NoContent,
      Text(Fenced(<<"json">>, ObjectText(schema))),
      Text(ObjectText(schema)),
      Text(not_json_at_all),
      Text(<<"{", "}">>) }

\* the answers a single enforcer is exercised with
EnforcerResponses ==
    {RequestError, NoContent}
    \cup {Text(t) : t \in ResponseTexts \cup PerformanceTexts}

----------------------------------------------------------------------------
(* 4_role_playing_prompts.py: the analyzer factories.  A text is named by   *)
(* its first sentence.                                                      *)

roles ==
    [ junior |-> "You are a junior developer learning SQL best practices.",
      senior |-> "You are a senior database architect with 15 years optimizing Fortune 500 databases.",
      security |-> "You are a database security specialist focused on SQL injection prevention.",
      consultant |-> "You are a database consultant who bills $300/hour." ]

industry_contexts ==
    [ ecommerce |-> "You are a database architect specializing in e-commerce platforms.",
      fintech |-> "You are a financial technology database expert.",
      healthcare |-> "You are a healthcare database specialist.",
      gaming |-> "You are a database engineer for online gaming platforms." ]

\* d.get(key, default)
dict_get(d, key, default) == IF key \in DOMAIN d THEN d[key] ELSE default

\* (variant) roles.get(expertise_level, roles['junior'])
expert_role_junior_fallback(expertise_level) ==
    dict_get(roles, expertise_level, roles["junior"])

\* roles.get(expertise_level, roles['senior'])
expert_role(expertise_level) ==
    dict_get(roles, expertise_level, roles["senior"])

\* industry_contexts.get(industry, industry_contexts['ecommerce'])
industry_context(industry) ==
    dict_get(industry_contexts, industry, industry_contexts["ecommerce"])

\* the system prompt built by analyze / analyze_for_industry: the text looked
\* up, then the fixed lines of the factory
system_prompt(factory, selector) ==
    IF factory = "create_expert_analyzer"
    THEN << expert_role(selector), "Your approach:", "Response format:" >>
    ELSE << industry_context(selector),
            "Consider industry-specific requirements:" >>

NoAnalyzer == [factory |-> "", selector |-> ""]
Analyzer(factory, selector) == [factory |-> factory, selector |-> selector]

\* demonstrate_role_differences and demonstrate_industry_perspectives
roles_list == <<"junior", "senior", "security", "consultant">>
industries == <<"fintech", "ecommerce", "gaming", "healthcare">>

\* selectors the factories are exercised with: the eight the dictionaries
\* know and some they do not
SelectorInputs ==
    DOMAIN roles \cup DOMAIN industry_contexts
    \cup {"", "Senior", "intern", "principal", "banking"}

Factories == {"create_expert_analyzer", "create_industry_specialist"}

----------------------------------------------------------------------------
(* The scripts: each is a sequence of request blocks, run in order.  A      *)
(* block is a for-loop over n examples (loop) or straight-line code, with   *)
(* `sites` completion call sites per example; guarded tells whether each    *)
(* site sits in a try ... except Exception that prints the error.           *)

Block(fn, kind, loop, n, sites, guarded) ==
    [fn |-> fn, kind |-> kind, loop |-> loop, n |-> n, sites |-> sites,
     guarded |-> guarded, schema |-> <<>>, system_message |-> NoSystemMessage]

Enforced(fn, n, schema, system_message) ==
    [fn |-> fn, kind |-> "enforcer", loop |-> TRUE, n |-> n, sites |-> 1,
     guarded |-> TRUE, schema |-> schema, system_message |-> system_message]

\* 1_system_vs_user_prompts.py
bad_approach == Block("bad_approach", "plain", FALSE, 1, 1, FALSE)
good_approach == Block("good_approach", "plain", FALSE, 1, 1, FALSE)
compare_approaches_1 == Block("compare_approaches", "plain", TRUE, 3, 1, FALSE)

\* 2_few_shot_learning.py
\* (variant) the three approaches are called outside a try
compare_approaches_2_unguarded ==
    Block("compare_approaches", "plain", TRUE, 4, 3, FALSE)

compare_approaches_2 == Block("compare_approaches", "plain", TRUE, 4, 3, TRUE)
demonstrate_pattern_learning ==
    Block("demonstrate_pattern_learning", "plain", TRUE, 2, 1, FALSE)

\* 3_chain_of_thought.py
compare_reasoning_approaches ==
    Block("compare_reasoning_approaches", "plain", FALSE, 1, 2, FALSE)
demonstrate_complex_reasoning ==
    Block("demonstrate_complex_reasoning", "plain", FALSE, 1, 2, FALSE)

\* 4_role_playing_prompts.py
demonstrate_role_differences ==
    Block("demonstrate_role_differences", "analyzer", TRUE, 4, 1, TRUE)
demonstrate_industry_perspectives ==
    Block("demonstrate_industry_perspectives", "analyzer", TRUE, 4, 1, TRUE)
demonstrate_detailed_personas ==
    Block("demonstrate_detailed_personas", "plain", TRUE, 2, 1, TRUE)

\* 5_constraint_based_prompting.py
validate_constraint_adherence_migration ==
    Block("validate_constraint_adherence", "plain", FALSE, 1, 1, FALSE)
validate_constraint_adherence_security ==
    Block("validate_constraint_adherence", "plain", TRUE, 3, 1, TRUE)
validate_constraint_adherence_performance ==
    Block("validate_constraint_adherence", "plain", TRUE, 3, 1, TRUE)
\* (variant) json.loads(result) has no try of its own
demonstrate_constraint_enforcement_raising ==
    Block("demonstrate_constraint_enforcement", "extract", TRUE, 3, 1, TRUE)

demonstrate_constraint_enforcement ==
    Block("demonstrate_constraint_enforcement", "json_check", TRUE, 3, 1, TRUE)
test_boundary_conditions ==
    Block("test_boundary_conditions", "plain", TRUE, 3, 1, TRUE)

\* 6_structured_output.py
\* (variant) extract_structured_data is called outside a try
main_basic_extraction_unguarded ==
    [Block("__main__", "extract", FALSE, 1, 1, FALSE) EXCEPT !.schema = main_schema]

main_basic_extraction ==
    [Block("__main__", "extract", FALSE, 1, 1, TRUE) EXCEPT !.schema = main_schema]
demonstrate_query_analysis ==
    Enforced("demonstrate_query_analysis", 3, analysis_schema,
             "You are a SQL analysis API that returns only JSON.")
demonstrate_security_audit ==
    Enforced("demonstrate_security_audit", 4, security_schema,
             "You are a security audit API that identifies vulnerabilities and returns only JSON.")
demonstrate_performance_report ==
    Enforced("demonstrate_performance_report", 3, performance_schema,
             "You are a database performance analysis API that returns only JSON.")
\* (variant) the call of the enforcer is not inside a try
test_edge_cases_unguarded ==
    [Enforced("test_edge_cases", 4, simple_schema,
              "Handle any input and return structured JSON response.")
        EXCEPT !.guarded = FALSE]

test_edge_cases ==
    Enforced("test_edge_cases", 4, simple_schema,
             "Handle any input and return structured JSON response.")

\* one enforcer called MaxInvocations times by a caller that catches, as the
\* four callers above do; its schema and ceiling are drawn in EnforcerInit
MaxInvocations == 2
MaxRetries == 3
enforcer_calls == Enforced("enforcer", MaxInvocations, <<>>, NoSystemMessage)

\* analyzers of either factory, of any selector, called MaxInvocations times
\* by a caller that catches, as the callers of 4_role_playing_prompts.py do
analyzer_calls == Block("analyzer", "analyzer", TRUE, MaxInvocations, 1, TRUE)

EnforcerSchemas == {simple_schema, performance_schema, empty_schema}

Scripts == 1..6

Program(s) ==
    CASE s = 0 -> <<enforcer_calls>>
      [] s = 1 -> <<bad_approach, good_approach, compare_approaches_1>>
      [] s = 2 -> <<compare_approaches_2, demonstrate_pattern_learning>>
      [] s = 3 -> <<compare_reasoning_approaches, demonstrate_complex_reasoning>>
      [] s = 4 -> <<demonstrate_role_differences,
                    demonstrate_industry_perspectives,
                    demonstrate_detailed_personas>>
      [] s = 5 -> <<validate_constraint_adherence_migration,
                    validate_constraint_adherence_security,
                    validate_constraint_adherence_performance,
                    demonstrate_constraint_enforcement,
                    test_boundary_conditions>>
      [] s = 6 -> <<main_basic_extraction, demonstrate_query_analysis,
                    demonstrate_security_audit, demonstrate_performance_report,
                    test_edge_cases>>
      [] s = 7 -> <<analyzer_calls>>

----------------------------------------------------------------------------
VARIABLES
    script,         \* the script being run (0: a single enforcer exercised,
                    \* 7: the analyzer factories exercised)
    stage,          \* index of the current block of Program(script)
    example,        \* index of the current example of the block (from 1)
    site,           \* index of the current call site of the example (from 1)
    pc,             \* "stage", "ready", "waiting", "done", "aborted"
    output_schema,  \* captured by create_json_enforcer
    max_retries,    \* captured by create_json_enforcer
    attempt,        \* enforce_json_output: the loop variable
    json_prompt,    \* enforce_json_output: the prompt as amended so far
    messages,       \* demonstrate_pattern_learning: the message list
    analyzer,       \* 4_role_playing_prompts.py: what the analyzer captured
    in_flight,      \* the completion requests awaiting their answer
    sent,           \* the user prompts sent so far by the current call
    last,           \* what the last attempt received and made of it
    failures,       \* the exceptions caught so far by the current call
    outcome,        \* how the last call of a site ended
    printed,        \* what the caller printed for the last site
    attempted,      \* sites of the current block whose call was started
    reported,       \* sites of the current block whose result or error was printed
    calls,          \* completion calls issued by the current call of a site
    total_calls     \* completion calls issued by the script

vars == <<script, stage, example, site, pc, output_schema, max_retries,
          attempt, json_prompt, messages, analyzer, in_flight, sent, last,
          failures, outcome, printed, attempted, reported, calls, total_calls>>

position == <<stage, example, site>>
enforcer == <<output_schema, max_retries>>
locals == <<attempt, json_prompt>>

CurrentBlock == Program(script)[stage]

\* (variant) json_prompt is kept by the closure from one invocation to the next
InitialJsonPrompt_shared(prompt) ==
    IF json_prompt = <<>>
    THEN << [kind |-> "prompt", n |-> prompt], [kind |-> "CRITICAL", n |-> 0] >>
    ELSE json_prompt

\* json_prompt is a local of enforce_json_output, built anew by each
\* invocation: the prompt followed by the format instructions (which spell the
\* captured schema and the rules); the notes of the retries are appended to it
InitialJsonPrompt(prompt) ==
    << [kind |-> "prompt", n |-> prompt], [kind |-> "CRITICAL", n |-> 0] >>

NoAttempt ==
    [attempt |-> 0, response |-> NoContent, received |-> FALSE,
     result_text |-> <<>>,
     decoded |-> FALSE, parsed |-> None, checked |-> FALSE, valid |-> FALSE]

Idle == [status |-> "idle", value |-> None, error |-> ""]
Running == [status |-> "running", value |-> None, error |-> ""]
Returned(value) == [status |-> "returned", value |-> value, error |-> ""]
Raised(error) == [status |-> "raised", value |-> None, error |-> error]

InitCommon ==
    /\ stage = 1
    /\ example = 1
    /\ site = 1
    /\ attempt = 0
    /\ json_prompt = <<>>
    /\ messages = <<>>
    /\ analyzer = NoAnalyzer
    /\ in_flight = <<>>
    /\ sent = <<>>
    /\ last = NoAttempt
    /\ failures = <<>>
    /\ outcome = Idle
    /\ printed = "none"
    /\ attempted = 0
    /\ reported = 0
    /\ calls = 0
    /\ total_calls = 0

\* a script is started: python <script>.py
Init ==
    /\ script \in Scripts
    /\ pc = "stage"
    /\ output_schema = <<>>
    /\ max_retries = 0
    /\ InitCommon

\* enforcer = create_json_enforcer(output_schema, max_retries)
EnforcerInit ==
    /\ script = 0
    /\ pc = "ready"
    /\ output_schema \in EnforcerSchemas
    /\ max_retries \in 0..MaxRetries
    /\ InitCommon

----------------------------------------------------------------------------
(* Control flow of the callers *)

\* the next site of the block, or the next block
GoOn(block) ==
    IF site < block.sites
    THEN /\ site' = site + 1
         /\ pc' = "ready"
         /\ UNCHANGED <<stage, example>>
    ELSE IF example < block.n
    THEN /\ example' = example + 1
         /\ site' = 1
         /\ pc' = "ready"
         /\ UNCHANGED stage
    ELSE /\ stage' = stage + 1
         /\ pc' = "stage"
         /\ UNCHANGED <<example, site>>

\* (variant) results are collected and printed after the loop
SiteEnds_deferred(block, what) ==
    IF what = "error" /\ ~block.guarded
    THEN /\ pc' = "aborted"
         /\ UNCHANGED <<position, printed, reported>>
    ELSE /\ UNCHANGED <<printed, reported>>
         /\ GoOn(block)

\* the call of the current site ended: by an exception (what = "error") or
\* with something to print.  An exception outside a try ends the script.
SiteEnds(block, what) ==
    IF what = "error" /\ ~block.guarded
    THEN /\ pc' = "aborted"
         /\ UNCHANGED <<position, printed, reported>>
    ELSE /\ printed' = what
         /\ reported' = reported + 1
         /\ GoOn(block)

\* a block is entered; an enforcer block first creates its enforcer
BeginBlock ==
    /\ pc = "stage"
    /\ stage <= Len(Program(script))
    /\ IF CurrentBlock.kind = "enforcer"
       THEN /\ output_schema' = CurrentBlock.schema
            /\ max_retries' = DefaultMaxRetries
       ELSE UNCHANGED enforcer
    /\ example' = 1
    /\ site' = 1
    /\ pc' = "ready"
    /\ attempted' = 0
    /\ reported' = 0
    /\ UNCHANGED messages
    /\ UNCHANGED analyzer
    /\ UNCHANGED <<script, stage, locals, in_flight, sent, last, failures,
                   outcome, printed, calls, total_calls>>

\* the last block has ended
Finish ==
    /\ pc = "stage"
    /\ stage > Len(Program(script))
    /\ pc' = "done"
    /\ UNCHANGED messages
    /\ UNCHANGED analyzer
    /\ UNCHANGED <<script, position, enforcer, locals, in_flight, sent, last,
                   failures, outcome, printed, attempted, reported, calls,
                   total_calls>>

----------------------------------------------------------------------------
(* The completion call sites outside the enforcer *)

Request(fn, system, user) == [fn |-> fn, system |-> system, user |-> user]

PlainPrompt(i) == <<[kind |-> "prompt", n |-> i]>>

PlainResponses == {RequestError, NoContent, Text(<<"answer">>)}

\* what a site that never parsed anything received
Received(r) ==
    [NoAttempt EXCEPT !.response = r, !.received = (r.kind # "raise")]

\* response["choices"][0]["message"]["content"]
Content(r) == IF r.kind = "none" THEN None ELSE PyStr(r.text)

\* 2_few_shot_learning.py, demonstrate_pattern_learning: the patterns
patterns ==
    << [ name |-> "Error Analysis",
         examples |->
            << << "This query is slow",
                  "ISSUE: Performance | CAUSE: Missing index | FIX: ADD INDEX idx_user_email ON users(email)" >>,
               << "Query returns wrong data",
                  "ISSUE: Logic error | CAUSE: Incorrect JOIN condition | FIX: Change INNER JOIN to LEFT JOIN" >> >>,
         test |-> "Query times out" ],
       [ name |-> "Code Review",
         examples |->
            << << "SELECT * FROM users",
                  "RATING: 2/5 | ISSUES: Using SELECT *, no WHERE clause | IMPROVE: Specify columns, add filtering" >>,
               << "SELECT u.id, u.name FROM users u WHERE u.active = 1",
                  "RATING: 4/5 | ISSUES: None major | IMPROVE: Consider adding LIMIT for large datasets" >> >>,
         test |-> "SELECT COUNT(*) FROM orders o, users u WHERE o.user_id = u.id" ] >>

Message(role, content) == [role |-> role, content |-> content]

PatternSystemMessage ==
    "You are a SQL expert. Follow the exact format shown in examples."

\* (variant) the list is created once, before the loop over the patterns
initial_messages_kept ==
    IF messages = <<>> THEN <<Message("system", PatternSystemMessage)>>
    ELSE messages

\* messages = [{"role": "system", ...}]
initial_messages == <<Message("system", PatternSystemMessage)>>

\* for example_input, example_output in pattern_data["examples"]:
\*     messages.extend([user example_input, assistant example_output])
RECURSIVE extend_examples(_, _, _)
extend_examples(msgs, examples, i) ==
    IF i > Len(examples) THEN msgs
    ELSE extend_examples(msgs \o << Message("user", examples[i][1]),
                                    Message("assistant", examples[i][2]) >>,
                         examples, i + 1)

\* the list as it stands when completion is called
pattern_messages(pattern_data) ==
    Append(extend_examples(initial_messages, pattern_data.examples, 1),
           Message("user", pattern_data.test))

builds_messages(block) == block.fn = "demonstrate_pattern_learning"

MessagesRequest(fn, msgs) ==
    [fn |-> fn, system |-> msgs[1].content, user |-> msgs[Len(msgs)].content,
     messages |-> msgs]

\* a site outside the enforcer issues its one completion request
CallCompletion ==
    /\ pc = "ready"
    /\ CurrentBlock.kind \in {"plain", "json_check", "extract"}
    /\ IF builds_messages(CurrentBlock)
       THEN /\ messages' = pattern_messages(patterns[example])
            /\ in_flight' = Append(in_flight,
                                   MessagesRequest(CurrentBlock.fn, messages'))
       ELSE /\ in_flight' = Append(in_flight,
                                   Request(CurrentBlock.fn, "", PlainPrompt(example)))
            /\ UNCHANGED messages
    /\ sent' = <<PlainPrompt(example)>>
    /\ pc' = "waiting"
    /\ outcome' = Running
    /\ last' = NoAttempt
    /\ failures' = <<>>
    /\ calls' = 1
    /\ total_calls' = total_calls + 1
    /\ attempted' = attempted + 1
    /\ UNCHANGED analyzer
    /\ UNCHANGED <<script, position, enforcer, locals, printed, reported>>

\* the analyzers the current example may be given
AnalyzersAt(block, i) ==
    IF block.fn = "demonstrate_role_differences"
    THEN {Analyzer("create_expert_analyzer", roles_list[i])}
    ELSE IF block.fn = "demonstrate_industry_perspectives"
    THEN {Analyzer("create_industry_specialist", industries[i])}
    ELSE {Analyzer(f, sel) : f \in Factories, sel \in SelectorInputs}

\* analyzer = create_...(selector); analyzer(query, context): the system
\* prompt is built and the completion request issued
CallAnalyzer ==
    /\ pc = "ready"
    /\ CurrentBlock.kind = "analyzer"
    /\ \E a \in AnalyzersAt(CurrentBlock, example) :
        /\ analyzer' = a
        /\ in_flight' = Append(in_flight,
                               Request(CurrentBlock.fn,
                                       system_prompt(a.factory, a.selector),
                                       PlainPrompt(example)))
    /\ sent' = <<PlainPrompt(example)>>
    /\ pc' = "waiting"
    /\ outcome' = Running
    /\ last' = NoAttempt
    /\ failures' = <<>>
    /\ calls' = 1
    /\ total_calls' = total_calls + 1
    /\ attempted' = attempted + 1
    /\ UNCHANGED <<script, position, enforcer, locals, messages, printed,
                   reported>>

\* completion(...) answers a site that prints the content as it is
ReturnPlain ==
    /\ pc = "waiting"
    /\ CurrentBlock.kind \in {"plain", "analyzer"}
    /\ \E r \in PlainResponses :
        /\ in_flight' = Tail(in_flight)
        /\ last' = Received(r)
        /\ IF r.kind = "raise"
           THEN /\ outcome' = Raised("RequestError")
                /\ SiteEnds(CurrentBlock, "error")
           ELSE /\ outcome' = Returned(Content(r))
                /\ SiteEnds(CurrentBlock, "result")
    /\ UNCHANGED messages
    /\ UNCHANGED analyzer
    /\ UNCHANGED <<script, enforcer, locals, sent, failures, attempted, calls,
                   total_calls>>

\* 5_constraint_based_prompting.py, demonstrate_constraint_enforcement:
\* the content is printed, then json.loads(result) tells valid from invalid
ReturnJsonCheck ==
    /\ pc = "waiting"
    /\ CurrentBlock.kind = "json_check"
    /\ \E r \in ScriptResponses(simple_schema) :
        /\ in_flight' = Tail(in_flight)
        /\ IF r.kind = "raise"
           THEN /\ last' = Received(r)
                /\ outcome' = Raised("RequestError")
                /\ SiteEnds(CurrentBlock, "error")
           ELSE IF r.kind = "none"
           THEN /\ last' = Received(r)
                /\ outcome' = Raised("TypeError")
                /\ SiteEnds(CurrentBlock, "error")
           ELSE LET p == json_loads(r.text)
                IN  /\ last' = [Received(r) EXCEPT !.result_text = r.text,
                                                   !.decoded = p.ok,
                                                   !.parsed = p.val]
                    /\ outcome' = Returned(Content(r))
                    /\ SiteEnds(CurrentBlock,
                                IF p.ok THEN "valid_json" ELSE "invalid_json")
    /\ UNCHANGED messages
    /\ UNCHANGED analyzer
    /\ UNCHANGED <<script, enforcer, locals, sent, failures, attempted, calls,
                   total_calls>>

\* (variant) the content is trimmed and its code fence removed before the parse
extract_loads_cleaned(content) == json_loads(clean_formatting(strip(content)))

\* extract_structured_data: json.loads(response[...]["content"]), as it stands
extract_loads(content) == json_loads(content)

\* 6_structured_output.py, extract_structured_data called by __main__
ReturnExtract ==
    /\ pc = "waiting"
    /\ CurrentBlock.kind = "extract"
    /\ \E r \in ScriptResponses(CurrentBlock.schema) :
        /\ in_flight' = Tail(in_flight)
        /\ IF r.kind = "raise"
           THEN /\ last' = Received(r)
                /\ outcome' = Raised("RequestError")
                /\ SiteEnds(CurrentBlock, "error")
           ELSE IF r.kind = "none"
           THEN /\ last' = Received(r)
                /\ outcome' = Raised("TypeError")
                /\ SiteEnds(CurrentBlock, "error")
           ELSE LET p == extract_loads(r.text)
                IN  /\ last' = [Received(r) EXCEPT !.result_text = r.text,
                                                   !.decoded = p.ok,
                                                   !.parsed = p.val]
                    /\ IF p.ok
                       THEN /\ outcome' = Returned(p.val)
                            /\ SiteEnds(CurrentBlock, "result")
                       ELSE /\ outcome' = Raised("JSONDecodeError")
                            /\ SiteEnds(CurrentBlock, "error")
    /\ UNCHANGED messages
    /\ UNCHANGED analyzer
    /\ UNCHANGED <<script, enforcer, locals, sent, failures, attempted, calls,
                   total_calls>>

----------------------------------------------------------------------------
(* 6_structured_output.py: enforce_json_output *)

Responses == IF script = 0 THEN EnforcerResponses ELSE ScriptResponses(output_schema)

\* the clean-up and the parse of the try block, applied to a content text
CleanAndParse(text) ==
    LET result_text == clean_formatting(strip(text))
    IN  [result_text |-> result_text, p |-> json_loads(result_text)]

\* the same, tabulated once for every text the completion call can answer
AnswerTexts ==
    ResponseTexts \cup PerformanceTexts
    \cup UNION {{r.text : r \in ScriptResponses(schema)} : schema \in Schemas}

CleanedAndParsed == [text \in AnswerTexts |-> CleanAndParse(text)]

\* one pass through the try block with the answer r of the completion call
TryBlock(r) ==
    IF r.kind # "text" THEN [Received(r) EXCEPT !.attempt = attempt]
    ELSE LET result_text == CleanedAndParsed[r.text].result_text
             p == CleanedAndParsed[r.text].p
         IN  [attempt |-> attempt, response |-> r, received |-> TRUE,
              result_text |-> result_text, decoded |-> p.ok, parsed |-> p.val, checked |-> p.ok,
              valid |-> p.ok /\ validate_schema(p.val, output_schema)]

\* a caller calls enforcer(prompt, system_message): the prompt is built and
\* the loop is entered
CallEnforcer ==
    /\ pc = "ready"
    /\ CurrentBlock.kind = "enforcer"
    /\ attempted' = attempted + 1
    /\ last' = NoAttempt
    /\ failures' = <<>>
    /\ json_prompt' = InitialJsonPrompt(example)
    /\ attempt' = 0
    /\ IF in_range(0, max_retries)
       THEN /\ in_flight' = Append(in_flight,
                                   Request(CurrentBlock.fn,
                                           system_msg(CurrentBlock.system_message),
                                           json_prompt'))
            /\ sent' = <<json_prompt'>>
            /\ calls' = 1
            /\ total_calls' = total_calls + 1
            /\ outcome' = Running
            /\ pc' = "waiting"
            /\ UNCHANGED <<position, printed, reported>>
       ELSE \* the loop body never runs: return None
            /\ sent' = <<>>
            /\ calls' = 0
            /\ outcome' = Returned(None)
            /\ SiteEnds(CurrentBlock, "result")
            /\ UNCHANGED <<in_flight, total_calls>>
    /\ UNCHANGED messages
    /\ UNCHANGED analyzer
    /\ UNCHANGED <<script, enforcer>>

\* completion(...) answers attempt `attempt`: the rest of the loop body, then
\* the return, the raise, or the next attempt's request
RespondEnforcer ==
    /\ pc = "waiting"
    /\ CurrentBlock.kind = "enforcer"
    /\ \E r \in Responses :
        LET t == TryBlock(r)
            e == IF r.kind = "raise" THEN "RequestError"
                 ELSE IF r.kind = "none" THEN "AttributeError"
                 ELSE IF t.decoded THEN "ValueError"
                 ELSE "JSONDecodeError"
        IN  /\ last' = t
            /\ IF r.kind = "text" /\ t.decoded /\ t.valid
               THEN \* return parsed
                    /\ outcome' = Returned(t.parsed)
                    /\ SiteEnds(CurrentBlock, "result")
                    /\ in_flight' = Tail(in_flight)
                    /\ UNCHANGED <<locals, sent, failures, calls, total_calls>>
               ELSE IF ~is_caught(e)
               THEN \* the exception propagates to the caller
                    /\ outcome' = Raised(e)
                    /\ SiteEnds(CurrentBlock, "error")
                    /\ in_flight' = Tail(in_flight)
                    /\ UNCHANGED <<locals, sent, failures, calls, total_calls>>
               ELSE \* except (json.JSONDecodeError, ValueError) as e
                    /\ failures' = Append(failures, e)
                    /\ IF is_last_attempt(attempt, max_retries)
                       THEN /\ outcome' = Raised("Exception")
                            /\ SiteEnds(CurrentBlock, "error")
                            /\ in_flight' = Tail(in_flight)
                            /\ UNCHANGED <<locals, sent, calls, total_calls>>
                       ELSE /\ json_prompt' = Append(json_prompt, CorrectiveNote(attempt))
                            /\ IF in_range(attempt + 1, max_retries)
                               THEN /\ attempt' = attempt + 1
                                    /\ in_flight' =
                                         Append(Tail(in_flight),
                                                Request(CurrentBlock.fn,
                                                        system_msg(CurrentBlock.system_message),
                                                        json_prompt'))
                                    /\ sent' = Append(sent, json_prompt')
                                    /\ calls' = calls + 1
                                    /\ total_calls' = total_calls + 1
                                    /\ UNCHANGED <<position, pc, outcome, printed,
                                                   reported>>
                               ELSE \* the loop ends: return None
                                    /\ outcome' = Returned(None)
                                    /\ SiteEnds(CurrentBlock, "result")
                                    /\ in_flight' = Tail(in_flight)
                                    /\ UNCHANGED <<attempt, sent, calls, total_calls>>
    /\ UNCHANGED messages
    /\ UNCHANGED analyzer
    /\ UNCHANGED <<script, enforcer, attempted>>

----------------------------------------------------------------------------
(* The specifications *)

Next ==
    \/ BeginBlock
    \/ CallCompletion
    \/ CallAnalyzer
    \/ ReturnPlain
    \/ ReturnJsonCheck
    \/ ReturnExtract
    \/ CallEnforcer
    \/ RespondEnforcer
    \/ Finish

\* every script, run from its start
Spec == Init /\ [][Next]_vars

EnforcerNext ==
    \/ CallEnforcer
    \/ RespondEnforcer
    \/ Finish

\* one enforcer of any schema and ceiling, called MaxInvocations times
EnforcerSpec == EnforcerInit /\ [][EnforcerNext]_vars

\* analyzers of both factories and of any selector, called MaxInvocations
\* times
FactoryInit ==
    /\ script = 7
    /\ pc = "ready"
    /\ output_schema = <<>>
    /\ max_retries = 0
    /\ InitCommon

FactoryNext ==
    \/ CallAnalyzer
    \/ ReturnPlain
    \/ Finish

FactorySpec == FactoryInit /\ [][FactoryNext]_vars

\* a script keeps running: the interpreter executes the next statement, and
\* the blocking completion call comes back with a response or an exception
FairSpec == Init /\ [][Next]_vars /\ WF_vars(Next)

----------------------------------------------------------------------------
(* Properties *)

endswith(s, suffix) ==
    Len(s) >= Len(suffix) /\ SubSeq(s, Len(s) - Len(suffix) + 1, Len(s)) = suffix

\* the key-presence check as the specification words it
HasAllKeys(data, schema) ==
    /\ data.t = "dict"
    /\ \A key \in SchemaKeys(schema) : key \in DOMAIN data.v

\* the corrective notes ATTEMPT 2 .. ATTEMPT k + 1
Notes(k) == [i \in 1..k |-> [kind |-> "ATTEMPT", n |-> i + 1]]

\* C1: in every example loop of every script, a failure raised by the request
\* of one example does not prevent the next example of the loop: no script
\* ends inside a loop while examples of the loop remain.
C1_LoopSurvivesFailure ==
    ~(pc = "aborted" /\ CurrentBlock.loop /\ example < CurrentBlock.n)

\* C2: one invocation of the enforcer issues at most max_retries completion
\* calls, whatever the answers are, also when it ends by raising.
C2_AtMostCeilingCalls ==
    /\ calls <= max_retries
    /\ Len(sent) = calls
    /\ Len(in_flight) <= 1

C2_Witness ==
    /\ outcome = Raised("Exception")
    /\ max_retries = 2
    /\ calls = 2

\* C3: the first attempt whose answer parses and holds every schema key ends
\* the invocation: its parse is returned at once, every earlier attempt
\* failed, and no completion call follows it.
C3_ReturnsOnFirstSuccess ==
    (last.received /\ last.decoded /\ HasAllKeys(last.parsed, output_schema))
    => /\ outcome = Returned(last.parsed)
       /\ pc # "waiting"
       /\ in_flight = <<>>
       /\ calls = Len(failures) + 1

C3_Witness ==
    /\ outcome.status = "returned"
    /\ last.decoded
    /\ max_retries = 3
    /\ Len(failures) = 1
    /\ calls = 2

\* C4 as claimed: when every attempt under the ceiling fails to parse the
\* helper raises, and a first answer "not json at all" causes one retry whose
\* prompt is the original prompt followed by a corrective note.
C4_Original ==
    /\ ( /\ max_retries >= 1
         /\ Len(failures) = max_retries
         /\ \A i \in 1..Len(failures) : failures[i] = "JSONDecodeError" )
       => outcome = Raised("Exception")
    /\ (last.attempt = 0 /\ last.response = Text(not_json_at_all))
       => /\ pc = "waiting"
          /\ calls = 2
          /\ sent = << InitialJsonPrompt(example),
                       InitialJsonPrompt(example) \o Notes(1) >>

\* C4 as amended: when every attempt under the ceiling fails to parse the
\* helper raises; under a ceiling of at least 2 a first answer "not json at
\* all" causes one retry whose prompt is the original prompt followed by a
\* corrective note, and under a ceiling of 1 it makes the helper raise with
\* no retry.
C4_RaisesAfterCeiling ==
    /\ ( /\ max_retries >= 1
         /\ Len(failures) = max_retries
         /\ \A i \in 1..Len(failures) : failures[i] = "JSONDecodeError" )
       => /\ outcome = Raised("Exception")
          /\ calls = max_retries
    /\ (last.attempt = 0 /\ last.response = Text(not_json_at_all))
       => IF max_retries >= 2
          THEN /\ pc = "waiting"
               /\ calls = 2
               /\ sent = << InitialJsonPrompt(example),
                            InitialJsonPrompt(example) \o Notes(1) >>
          ELSE /\ outcome = Raised("Exception")
               /\ calls = 1

C4_Witness ==
    /\ pc = "waiting"
    /\ max_retries >= 2
    /\ Len(failures) = 1
    /\ last.response = Text(not_json_at_all)
    /\ sent[2] = InitialJsonPrompt(example) \o Notes(1)

\* C5: a tagged or untagged fence around a body that is valid JSON is cut off
\* before the parse: the opening and the closing marker are gone from the
\* text handed to json.loads, and the parse of that attempt succeeds.
C5_FencedJsonParses ==
    \A tag \in {<<"json">>, <<>>} : \A body \in FencedBodies :
        \A text \in { Fenced(tag, body), FENCE \o tag \o body \o FENCE,
                      <<NL, SP>> \o Fenced(tag, body) \o <<NL>> } :
            (last.response = Text(text) /\ json_loads(body).ok)
            => /\ last.decoded
               /\ ~startswith(last.result_text, FENCE)
               /\ ~endswith(last.result_text, FENCE)
               /\ ~startswith(last.result_text, <<"json">>)

C5_Witness ==
    /\ last.response = Text(Fenced(<<>>, success_object))
    /\ last.decoded
    /\ outcome.status = "returned"

\* C6 as claimed: validate_schema returns false if any schema key is absent
\* from the parsed result (a result that is no mapping holds no key) and true
\* otherwise.
C6_Original ==
    last.checked
    => ( last.valid <=>
            ~(\E key \in SchemaKeys(output_schema) :
                ~(last.parsed.t = "dict" /\ key \in DOMAIN last.parsed.v)) )

\* C6 as amended: for a parsed result that is a mapping validate_schema
\* returns false if any schema key is absent from it and true otherwise,
\* whatever the types of the values; for a result that is no mapping it
\* returns false.
C6_KeyPresenceOnMappings ==
    last.checked
    => IF last.parsed.t = "dict"
       THEN last.valid <=> (SchemaKeys(output_schema) \subseteq DOMAIN last.parsed.v)
       ELSE ~last.valid

C6_Witness ==
    /\ last.checked
    /\ last.response = Text(other_types_object)
    /\ output_schema = simple_schema
    /\ last.valid

\* {"status": "success", "message": "ok", "data": None}
ExpectedSuccessMapping ==
    PyDict( (<<"status">> :> PyStr(<<"success">>))
            @@ (<<"message">> :> PyStr(<<"ok">>))
            @@ (<<"data">> :> None) )

\* C7: under the schema status, message, data, a first answer that is the
\* json-fenced object {"status": "success", "message": "ok", "data": null}
\* validates as true and is returned as the mapping with those three keys
\* and values, after exactly one completion call.
C7_FencedScenario ==
    ( /\ output_schema = simple_schema
      /\ last.attempt = 0
      /\ last.response = Text(Fenced(<<"json">>, success_object)) )
    => /\ last.valid
       /\ outcome = Returned(ExpectedSuccessMapping)
       /\ DOMAIN outcome.value.v = {<<"status">>, <<"message">>, <<"data">>}
       /\ calls = 1
       /\ in_flight = <<>>

C7_Witness ==
    /\ output_schema = simple_schema
    /\ last.attempt = 0
    /\ last.response = Text(Fenced(<<"json">>, success_object))
    /\ outcome = Returned(ExpectedSuccessMapping)
    /\ calls = 1

\* C8: a parse failure and a missing-key failure are handled alike and share
\* one budget: each failure on a non-final attempt appends one corrective
\* note and is followed by a retry, and the helper raises its failure exactly
\* when max_retries attempts have failed, whatever the mix of the two kinds.
C8_SharedBudget ==
    /\ pc = "waiting"
       => /\ Len(failures) < max_retries
          /\ calls = Len(failures) + 1
          /\ json_prompt = InitialJsonPrompt(example) \o Notes(Len(failures))
          /\ sent[calls] = json_prompt
    /\ (last.received /\ last.response.kind = "text"
            /\ ~(last.decoded /\ HasAllKeys(last.parsed, output_schema)))
       => /\ failures # <<>>
          /\ failures[Len(failures)] =
                (IF last.decoded THEN "ValueError" ELSE "JSONDecodeError")
          /\ IF Len(failures) = max_retries
             THEN outcome = Raised("Exception")
             ELSE pc = "waiting"
    /\ outcome = Raised("Exception") => Len(failures) = max_retries

C8_Witness ==
    /\ outcome = Raised("Exception")
    /\ max_retries = 3
    /\ failures = <<"ValueError", "JSONDecodeError", "ValueError">>

\* C9: every caller of an enforcer in 6_structured_output.py catches the
\* failure raised after the ceiling, prints it, and goes on with the next
\* input of its loop.
C9_CallersCatch ==
    (script = 6 /\ outcome = Raised("Exception"))
    => /\ printed = "error"
       /\ pc \in {"ready", "stage", "done"}
       /\ reported = attempted
       /\ pc = "ready" => example = attempted + 1

C9_Witness ==
    /\ script = 6
    /\ outcome = Raised("Exception")
    /\ pc = "ready"
    /\ stage = 5
    /\ example = 2

\* C10: validate_schema returns false for every parsed result that is not a
\* mapping, whatever the schema, the empty one included; in the enforcer such
\* an answer counts as a failed attempt and is never returned.
C10_NonMappingRejected ==
    (last.checked /\ last.parsed.t # "dict")
    => /\ ~last.valid
       /\ \A schema \in Schemas : ~validate_schema(last.parsed, schema)
       /\ failures # <<>>
       /\ failures[Len(failures)] = "ValueError"
       /\ outcome.status # "returned"

C10_Witness ==
    /\ last.checked
    /\ last.parsed.t = "list"
    /\ output_schema = empty_schema
    /\ outcome = Raised("Exception")

\* the prompt and the format instructions, with no corrective note
UnamendedPrompt(prompt) ==
    << [kind |-> "prompt", n |-> prompt], [kind |-> "CRITICAL", n |-> 0] >>

\* C11: nothing is shared between the invocations of one enforcer: whatever
\* notes an earlier invocation appended, the first attempt of an invocation
\* sends the unamended prompt built from its own argument, and no step ever
\* changes the schema or the ceiling captured by create_json_enforcer.
C11_NoSharedState ==
    /\ []( (pc = "waiting" /\ attempt = 0)
           => /\ json_prompt = UnamendedPrompt(example)
              /\ sent = <<UnamendedPrompt(example)>>
              /\ in_flight[1].user = UnamendedPrompt(example) )
    /\ []( calls >= 1 => sent[1] = UnamendedPrompt(attempted) )
    /\ [][ /\ output_schema' = output_schema
           /\ max_retries' = max_retries
           /\ (pc = "ready" /\ pc' = "waiting")
              => json_prompt' = UnamendedPrompt(example) ]_vars

\* the second invocation has sent its first request, the first one having
\* ended by raising after its notes were appended
C11_Witness ==
    /\ pc = "waiting"
    /\ example = 2
    /\ attempt = 0
    /\ max_retries = 3
    /\ printed = "error"
    /\ sent = <<UnamendedPrompt(2)>>

\* C12: a script has at most one completion request outstanding, and while
\* the request of a site is outstanding the result or the error of every
\* earlier site of the loop has been printed; between two requests nothing
\* is outstanding and every site started so far has been reported.
C12_OneRequestAtATime ==
    /\ Len(in_flight) <= 1
    /\ pc = "waiting"
       => /\ Len(in_flight) = 1
          /\ outcome = Running
          /\ reported = attempted - 1
    /\ pc \in {"ready", "stage", "done"}
       => /\ in_flight = <<>>
          /\ reported = attempted
    /\ pc = "aborted" => in_flight = <<>>

\* the third persona of demonstrate_role_differences is being asked after
\* the error of the second was printed
C12_Witness ==
    /\ script = 4
    /\ stage = 1
    /\ example = 3
    /\ pc = "waiting"
    /\ Len(in_flight) = 1
    /\ printed = "error"
    /\ reported = 2

\* C13: under a ceiling of at least 1, a value returned by enforce_json_output
\* is a mapping that holds every key of the schema, and it is the parse of
\* the (trimmed, fence-stripped) content of the answer to the last completion
\* call the invocation made.
C13_ReturnsValidatedParse ==
    (outcome.status = "returned" /\ max_retries >= 1)
    => /\ outcome.value.t = "dict"
       /\ SchemaKeys(output_schema) \subseteq DOMAIN outcome.value.v
       /\ calls >= 1
       /\ last.attempt = calls - 1
       /\ last.response.kind = "text"
       /\ json_loads(clean_formatting(strip(last.response.text))).ok
       /\ outcome.value = json_loads(clean_formatting(strip(last.response.text))).val

\* the third call of an invocation is answered by an object that holds the
\* three keys and one more, and that object is returned
C13_Witness ==
    /\ outcome.status = "returned"
    /\ max_retries = 3
    /\ output_schema = simple_schema
    /\ calls = 3
    /\ last.response = Text(other_types_object)
    /\ DOMAIN outcome.value.v =
          {<<"status">>, <<"message">>, <<"data">>, <<"extra">>}

\* C14: for every ceiling, 0 included, an invocation of enforce_json_output
\* that has ended either returned a mapping holding every key of the schema
\* or raised; it never returns a value that is no mapping, such as None.
C14_NeverReturnsNone ==
    outcome.status = "returned"
    => /\ outcome.value # None
       /\ outcome.value.t = "dict"
       /\ SchemaKeys(output_schema) \subseteq DOMAIN outcome.value.v

\* C15: the prompt sent on attempt k (from 1) is the initial prompt followed
\* by the k - 1 notes ATTEMPT 2 .. ATTEMPT k in that order, so each prompt is
\* a prefix of the next; and when every attempt has failed by a parse or a
\* missing-key failure exactly max_retries calls were made and no note was
\* appended after the last failure.
C15_PromptNotes ==
    /\ \A k \in 1..Len(sent) :
          /\ sent[k] = UnamendedPrompt(attempted)
                         \o [i \in 1..(k - 1) |-> [kind |-> "ATTEMPT", n |-> i + 1]]
          /\ k > 1 => SubSeq(sent[k], 1, Len(sent[k - 1])) = sent[k - 1]
          /\ k > 1 => Len(sent[k]) = Len(sent[k - 1]) + 1
    /\ (max_retries >= 1 /\ Len(failures) = max_retries)
       => /\ outcome = Raised("Exception")
          /\ calls = max_retries
          /\ Len(sent) = max_retries
          /\ json_prompt = sent[max_retries]
          /\ Len(json_prompt) = 2 + (max_retries - 1)

\* three attempts failed: the third prompt carried ATTEMPT 2 and ATTEMPT 3
C15_Witness ==
    /\ outcome = Raised("Exception")
    /\ max_retries = 3
    /\ Len(failures) = 3
    /\ calls = 3
    /\ sent[3] = UnamendedPrompt(attempted)
                  \o << [kind |-> "ATTEMPT", n |-> 2], [kind |-> "ATTEMPT", n |-> 3] >>
    /\ json_prompt = sent[3]

\* C16: an exception raised by the completion call inside enforce_json_output
\* is not retried: it reaches the caller from the attempt on which it occurs,
\* no completion call follows it in the invocation and no corrective note is
\* appended for it, also when attempts remain under the ceiling.
C16_RequestFailureNotRetried ==
    last.response = RequestError
    => /\ outcome = Raised("RequestError")
       /\ pc # "waiting"
       /\ in_flight = <<>>
       /\ calls = last.attempt + 1
       /\ Len(sent) = last.attempt + 1
       /\ Len(failures) = last.attempt
       /\ json_prompt = sent[Len(sent)]
       /\ json_prompt = UnamendedPrompt(attempted)
                         \o [i \in 1..last.attempt |-> [kind |-> "ATTEMPT", n |-> i + 1]]

\* the second of three allowed calls raises: the caller gets the exception
\* with one attempt left
C16_Witness ==
    /\ last.response = RequestError
    /\ outcome = Raised("RequestError")
    /\ max_retries = 3
    /\ calls = 2
    /\ Len(failures) = 1
    /\ printed = "error"

\* C17: fence stripping does not alter the payload: when the answer is valid
\* JSON wrapped in a tagged or untagged fence, the value parsed (and returned
\* when it validates) is the parse of the text between the two markers, also
\* when a string value of the payload contains three backticks; and an
\* answer that does not start with a fence reaches the parser unchanged
\* apart from the trimming of white space.
C17_PayloadUnaltered ==
    /\ \A tag \in {<<"json">>, <<>>} : \A body \in FencedBodies :
          (last.response = Text(Fenced(tag, body)) /\ json_loads(body).ok)
          => /\ last.decoded
             /\ last.parsed = json_loads(body).val
             /\ last.valid => outcome = Returned(json_loads(body).val)
    /\ (last.received /\ last.response.kind = "text"
            /\ ~startswith(strip(last.response.text), FENCE))
       => last.result_text = strip(last.response.text)

\* C18: whatever the completion call answers, 6_structured_output.py runs to
\* its end: it never stops early, it goes through its five blocks in order
\* and starts every example of each (1 basic extraction, 3 query analyses,
\* 4 security audits, 3 performance reports, 4 edge cases), and it issues at
\* most 1 + 14 * 3 = 43 completion calls.
C18_ScriptSixTerminates ==
    /\ []( script = 6
           => /\ pc # "aborted"
              /\ total_calls <= 1 + 14 * 3
              /\ calls <= 3
              /\ pc = "ready" => example = attempted + 1
              /\ pc = "waiting" => example = attempted
              /\ (pc = "stage" /\ stage > 1)
                 => attempted = Program(6)[stage - 1].n
              /\ pc = "done"
                 => /\ stage = 6
                    /\ <<Program(6)[1].n, Program(6)[2].n, Program(6)[3].n,
                          Program(6)[4].n, Program(6)[5].n>> = <<1, 3, 4, 3, 4>> )
    /\ (script = 6) ~> (pc = "done" /\ stage = 6 /\ attempted = 4)

\* the run in which every attempt of every example failed has ended
C18_Witness ==
    /\ script = 6
    /\ pc = "done"
    /\ total_calls = 43
    /\ outcome = Raised("Exception")

\* C19: validate_schema looks at the top-level keys only: a performance
\* report that holds every top-level key validates as true when its
\* resource_usage lacks the inner keys or is no mapping at all, keys the
\* schema does not name never cause a rejection, and under the empty schema
\* every mapping validates as true.
C19_TopLevelKeysOnly ==
    /\ \A text \in PerformanceTexts :
          (output_schema = performance_schema /\ last.response = Text(text))
          => /\ last.checked
             /\ last.valid
             /\ outcome = Returned(last.parsed)
    /\ ( /\ last.checked
         /\ last.parsed.t = "dict"
         /\ \E extra \in DOMAIN last.parsed.v : extra \notin SchemaKeys(output_schema)
         /\ SchemaKeys(output_schema) \subseteq DOMAIN last.parsed.v )
       => last.valid
    /\ (last.checked /\ last.parsed.t = "dict" /\ output_schema = empty_schema)
       => last.valid

\* a report whose resource_usage is the empty mapping was accepted
C19_Witness ==
    /\ output_schema = performance_schema
    /\ last.response = Text(resource_usage_empty)
    /\ last.valid
    /\ last.parsed.v[<<"resource_usage">>] = PyDict(<<>>)
    /\ outcome = Returned(last.parsed)

\* C20: extract_structured_data issues one completion call and parses its
\* content as it stands: no retry, no fence stripping, no key check.  An
\* answer that json.loads rejects, valid JSON inside a code fence included,
\* makes it raise after that one call, and any answer that parses is
\* returned, also when keys of the schema are missing.
C20_ExtractSingleCall ==
    /\ (script = 6 /\ stage = 1 /\ pc = "waiting")
       => (calls = 1 /\ total_calls = 1 /\ Len(in_flight) = 1)
    /\ (script = 6 /\ stage = 2 /\ pc = "stage")
       => /\ calls = 1
          /\ total_calls = 1
          /\ in_flight = <<>>
          /\ failures = <<>>
          /\ last.response = Text(Fenced(<<"json">>, ObjectText(main_schema)))
             => /\ outcome = Raised("JSONDecodeError")
                /\ printed = "error"
          /\ last.response = Text(not_json_at_all)
             => outcome = Raised("JSONDecodeError")
          /\ last.response = Text(<<"{", "}">>)
             => /\ outcome = Returned(PyDict(<<>>))
                /\ printed = "result"
          /\ last.response = Text(ObjectText(main_schema))
             => /\ outcome.status = "returned"
                /\ DOMAIN outcome.value.v = SchemaKeys(main_schema)
          /\ last.response.kind = "text"
             => IF json_loads(last.response.text).ok
                THEN outcome = Returned(json_loads(last.response.text).val)
                ELSE outcome = Raised("JSONDecodeError")

\* the fenced object with the four keys was answered and the parse failed
C20_Witness ==
    /\ script = 6
    /\ stage = 2
    /\ pc = "stage"
    /\ last.response = Text(Fenced(<<"json">>, ObjectText(main_schema)))
    /\ outcome = Raised("JSONDecodeError")
    /\ total_calls = 1

\* C21: in compare_approaches of 2_few_shot_learning.py each of the three
\* approaches of a query is guarded on its own: whatever fails, the script
\* does not stop in the loop, the requests are started in the order query by
\* query and, within a query, zero-shot, few-shot, advanced, each after the
\* result or error of the one before was printed, and all 4 * 3 are started.
C21_ApproachesGuardedIndependently ==
    /\ []( (script = 2 /\ stage = 1)
           => /\ pc # "aborted"
              /\ example \in 1..4
              /\ site \in 1..3
              /\ pc = "waiting"
                 => /\ attempted = 3 * (example - 1) + site
                    /\ reported = attempted - 1
              /\ pc = "ready"
                 => /\ attempted = 3 * (example - 1) + (site - 1)
                    /\ reported = attempted )
    /\ []( (script = 2 /\ stage = 2 /\ pc = "stage")
           => (attempted = 4 * 3 /\ reported = 4 * 3) )
    /\ (script = 2 /\ stage = 1)
          ~> (script = 2 /\ stage = 2 /\ pc = "stage" /\ attempted = 4 * 3)

\* the zero-shot request of the first query failed, its error was printed,
\* and the few-shot request of the same query is outstanding
C21_Witness ==
    /\ script = 2
    /\ stage = 1
    /\ example = 1
    /\ site = 2
    /\ pc = "waiting"
    /\ printed = "error"
    /\ reported = 1

\* patterns with 0 .. MaxExamples examples, to go through pattern_messages
MaxExamples == 3
ExamplePairs == { <<"in 1", "out 1">>, <<"in 2", "out 2">> }
SomePatterns ==
    { [name |-> "p", examples |-> ex, test |-> "test"] :
        ex \in UNION {[1..n -> ExamplePairs] : n \in 0..MaxExamples} }

\* system first, then each example as a user message followed at once by
\* its assistant message, in the given order, then the test as a user message
WellFormedMessages(m, pattern_data) ==
    LET n == Len(pattern_data.examples)
    IN  /\ Len(m) = 2 * n + 2
        /\ m[1].role = "system"
        /\ \A k \in 1..n :
              /\ m[2 * k] = [role |-> "user", content |-> pattern_data.examples[k][1]]
              /\ m[2 * k + 1] =
                    [role |-> "assistant", content |-> pattern_data.examples[k][2]]
        /\ m[2 * n + 2] = [role |-> "user", content |-> pattern_data.test]

\* C22: in demonstrate_pattern_learning the message list sent for a pattern
\* with n examples has exactly 2n + 2 entries: the system message, the n
\* example pairs in order, each a user message followed at once by its
\* assistant message, and the test query last as a user message; the list is
\* built anew for each pattern, so the request of one pattern holds no
\* example of another.
C22_PatternMessageList ==
    /\ (script = 2 /\ stage = 2 /\ pc = "waiting")
       => /\ example \in 1..Len(patterns)
          /\ Len(in_flight) = 1
          /\ in_flight[1].messages = messages
          /\ WellFormedMessages(in_flight[1].messages, patterns[example])
          /\ Len(in_flight[1].messages) = 2 * 2 + 2
          /\ \A j \in 1..Len(patterns) : \A k \in 1..Len(patterns[j].examples) :
                \A i \in 1..Len(in_flight[1].messages) :
                    in_flight[1].messages[i].content \in
                        {patterns[j].examples[k][1], patterns[j].examples[k][2]}
                    => j = example
    /\ \A pattern_data \in SomePatterns :
          WellFormedMessages(pattern_messages(pattern_data), pattern_data)

\* the request of the second pattern is outstanding, after the first
\* pattern's answer was printed
C22_Witness ==
    /\ script = 2
    /\ stage = 2
    /\ example = 2
    /\ pc = "waiting"
    /\ reported = 1
    /\ Len(in_flight[1].messages) = 6
    /\ in_flight[1].messages[2].content = "SELECT * FROM users"
    /\ in_flight[1].messages[6].content = patterns[2].test

\* C23: in demonstrate_constraint_enforcement every request makes exactly
\* one completion call and the loop goes on to the next request whatever
\* came back: a content that is not valid JSON is reported as an invalid
\* format, nothing being raised; a content that parses is reported as valid;
\* a failed request has its error printed.
C23_InvalidJsonReported ==
    /\ (script = 5 /\ stage = 4)
       => /\ pc # "aborted"
          /\ pc = "waiting"
             => /\ calls = 1
                /\ Len(in_flight) = 1
                /\ example = attempted
                /\ total_calls = 7 + attempted
          /\ pc = "ready"
             => /\ example = attempted + 1
                /\ reported = attempted
                /\ in_flight = <<>>
                /\ total_calls = 7 + attempted
    /\ ( /\ script = 5
         /\ \/ stage = 4 /\ pc = "ready" /\ attempted >= 1
            \/ stage = 5 /\ pc = "stage" )
       => /\ calls = 1
          /\ failures = <<>>
          /\ (last.response.kind = "text" /\ ~json_loads(last.response.text).ok)
             => /\ printed = "invalid_json"
                /\ outcome = Returned(PyStr(last.response.text))
          /\ (last.response.kind = "text" /\ json_loads(last.response.text).ok)
             => /\ printed = "valid_json"
                /\ outcome = Returned(PyStr(last.response.text))
          /\ last.response = RequestError
             => /\ printed = "error"
                /\ outcome = Raised("RequestError")
    /\ (script = 5 /\ stage = 5 /\ pc = "stage")
       => (attempted = 3 /\ reported = 3 /\ total_calls = 7 + 3)

\* the first request was answered "not json at all": the invalid format was
\* reported and the second request is about to be made
C23_Witness ==
    /\ script = 5
    /\ stage = 4
    /\ pc = "ready"
    /\ example = 2
    /\ last.response = Text(not_json_at_all)
    /\ printed = "invalid_json"
    /\ outcome.status = "returned"
    /\ total_calls = 8

SeniorText ==
    "You are a senior database architect with 15 years optimizing Fortune 500 databases."
EcommerceText ==
    "You are a database architect specializing in e-commerce platforms."

\* C24: the analyzer factories of 4_role_playing_prompts.py do not fail on
\* an unknown selector: the request is issued all the same, and its system
\* prompt is the one built for senior when create_expert_analyzer was given
\* a level outside junior, senior, security, consultant, and the one built
\* for ecommerce when create_industry_specialist was given an industry
\* outside ecommerce, fintech, healthcare, gaming; a known selector gets its
\* own text.
C24_UnknownSelectorDefaults ==
    (pc = "waiting" /\ CurrentBlock.kind = "analyzer")
    => /\ Len(in_flight) = 1
       /\ outcome = Running
       /\ analyzer.factory \in Factories
       /\ analyzer.factory = "create_expert_analyzer"
          => /\ Len(in_flight[1].system) = 3
             /\ IF analyzer.selector \in {"junior", "senior", "security", "consultant"}
                THEN in_flight[1].system[1] = roles[analyzer.selector]
                ELSE /\ in_flight[1].system[1] = SeniorText
                     /\ in_flight[1].system =
                           <<SeniorText, "Your approach:", "Response format:">>
       /\ analyzer.factory = "create_industry_specialist"
          => /\ Len(in_flight[1].system) = 2
             /\ IF analyzer.selector \in {"ecommerce", "fintech", "healthcare", "gaming"}
                THEN in_flight[1].system[1] = industry_contexts[analyzer.selector]
                ELSE in_flight[1].system =
                        <<EcommerceText, "Consider industry-specific requirements:">>

\* an analyzer made for the unknown level "intern" has sent its request
C24_Witness ==
    /\ script = 7
    /\ pc = "waiting"
    /\ analyzer = Analyzer("create_expert_analyzer", "intern")
    /\ in_flight[1].system[1] = SeniorText
    /\ SeniorText = roles["senior"]

====
